---- MODULE Spec2Model ----
(***************************************************************************)
(* Model of the PowerPoint shortcut trainer: the sequential shortcut hook  *)
(* (src/utils/shortcut.ts, useSequentialShortcut), the hook-based and      *)
(* inline game components, and the session wrapper                         *)
(* (ShortcutGameWrapper).  Every event handler, together with the React    *)
(* render and the effects it triggers, is one atomic action.               *)
(***************************************************************************)
EXTENDS Integers, Sequences, FiniteSets, TLC

VARIABLES
  sequence,     \* useSequentialShortcut: the `sequence` argument
  isMac,        \* useSequentialShortcut: navigator.platform test
  seq,          \* the hook's state: progress, error, completed, currentKey,
                \* pressedKeys, altPressed, and the step timer behind timerRef
  hist,         \* history: key events handled since progress was last 0
  prev,         \* history: the hook's state before the last operation on it
  lastOp,       \* history: the last operation on the hook
  lastCtrl,     \* history: primary-modifier flag of the last key event
  expiredAt,    \* history: progress lost by a step-timer expiry, kept over
                \* the one key event that directly follows it
  view,         \* "engine": a bare hook instance; "session": the trainer
                \* shows the wrapper and its game; "menu": it shows the menu
  wrapper,      \* ShortcutGameWrapper: its state and props
  game,         \* the mounted game component's state, or NoGame
  clock,        \* Date.now() - startTimeRef.current, in ms
  orphans,      \* timeouts of unmounted games that are still pending
  closed,       \* history: what made the trainer return to the menu, "none"
                \* while a wrapper is mounted
  probe,        \* a call of normalizeKey on its own: its arguments and, once
                \* it has returned, its result
  closure       \* the progress and completed that the handleKey held by the
                \* keydown listener captured when it was created

engineVars == <<sequence, isMac, seq, hist, prev, lastOp, lastCtrl, expiredAt>>

sessionVars == <<wrapper, game, clock, orphans, closed>>

vars == <<sequence, isMac, seq, hist, prev, lastOp, lastCtrl, expiredAt, view,
          wrapper, game, clock, orphans, closed, probe, closure>>

Null == "null"

NoGame == [cmd |-> Null]

NoWrapper == [randomCommands |-> << >>]

NoProbe == [key |-> Null]

\* the wrapper's `countdown` state when it is null
NoCountdown == -1

(***************************************************************************)
(* Bounds                                                                  *)
(***************************************************************************)
\* largest testConfig.count a session is started with
MaxCount == 2

\* the commands the modelled shuffles put in front: a hook-based chord game,
\* the inline game with the Continue button and a hook-based
\* ordered-sequence game
Pool == {"group", "alignTop", "swapPositions"}

(***************************************************************************)
(* Shortcut catalog                                                        *)
(***************************************************************************)
shortcuts ==
  [ group                  |-> [mac |-> <<"cmd", "g">>,           windows |-> <<"ctrl", "g">>],
    duplicate              |-> [mac |-> <<"cmd", "d">>,           windows |-> <<"ctrl", "d">>],
    alignTop               |-> [mac |-> <<"alt", "x", "a", "t">>, windows |-> <<"alt", "x", "a", "t">>],
    distributeHorizontally |-> [mac |-> <<"alt", "x", "d", "h">>, windows |-> <<"alt", "x", "d", "h">>],
    alignTopFirst          |-> [mac |-> <<"alt", "p", "a", "t">>, windows |-> <<"alt", "p", "a", "t">>],
    swapPositions          |-> [mac |-> <<"alt", "p", "s", "w">>, windows |-> <<"alt", "p", "s", "w">>],
    groupSimilar           |-> [mac |-> <<"alt", "x", "b", "s">>, windows |-> <<"alt", "x", "b", "s">>] ]

GameCommand == DOMAIN shortcuts

\* every sequence of the catalog, both platform variants
Definitions ==
  {shortcuts[c].mac : c \in GameCommand} \cup {shortcuts[c].windows : c \in GameCommand}

(***************************************************************************)
(* Keyboard events                                                         *)
(***************************************************************************)
\* Characters macOS produces for Option+letter, named by their code points:
\* U+2248 is the almost-equal sign, U+00E5 a-ring, U+2020 dagger, U+2202
\* partial differential, U+02D9 dot above, U+03C0 pi, U+00DF sharp s,
\* U+2211 summation, U+222B integral, U+00A9 copyright.
macKeyMap ==
  [ x \in {"U+2248", "U+00E5", "U+2020", "U+2202", "U+02D9", "U+03C0",
           "U+00DF", "U+2211", "U+222B", "U+00A9"} |->
      CASE x = "U+2248" -> "x"
        [] x = "U+00E5" -> "a"
        [] x = "U+2020" -> "t"
        [] x = "U+2202" -> "d"
        [] x = "U+02D9" -> "h"
        [] x = "U+03C0" -> "p"
        [] x = "U+00DF" -> "s"
        [] x = "U+2211" -> "w"
        [] x = "U+222B" -> "b"
        [] x = "U+00A9" -> "g" ]

\* KeyboardEvent.key values delivered by the browser
RawKeys ==
  {"Alt", "Control", "Meta", "a", "b", "d", "D", "g", "G", "h", "p",
   "s", "t", "w", "x", "X", "q"} \cup DOMAIN macKeyMap

KeyboardEvent == [key : RawKeys, altKey : BOOLEAN, ctrlKey : BOOLEAN, metaKey : BOOLEAN]

\* the key events a session is driven with: the keys of the shortcuts in
\* Pool (each of them a wrong key for the other shortcuts) and one
\* Option-altered character, with at most one modifier
SessionEvents ==
  {e \in KeyboardEvent :
     /\ e.key \in {"Alt", "a", "g", "p", "s", "t", "w", "x", "U+2248"}
     /\ (e.key = "Alt" => e.altKey)
     /\ ~(e.altKey /\ e.ctrlKey) /\ ~(e.altKey /\ e.metaKey) /\ ~(e.ctrlKey /\ e.metaKey)}

lowerCase == <<"a", "b", "c", "d", "e", "f", "g", "h", "i", "j", "k", "l", "m",
               "n", "o", "p", "q", "r", "s", "t", "u", "v", "w", "x", "y", "z">>

upperCase == <<"A", "B", "C", "D", "E", "F", "G", "H", "I", "J", "K", "L", "M",
               "N", "O", "P", "Q", "R", "S", "T", "U", "V", "W", "X", "Y", "Z">>

\* String.prototype.toLowerCase on KeyboardEvent.key values; U+00C5 is
\* A-ring, the character of Shift+Option+A, whose lower case is U+00E5
toLowerCase(k) ==
  CASE k = "Alt"     -> "alt"
    [] k = "Control" -> "control"
    [] k = "Meta"    -> "meta"
    [] k = "Shift"   -> "shift"
    [] k = "Enter"   -> "enter"
    [] k = "U+00C5"  -> "U+00E5"
    [] \E i \in DOMAIN upperCase : upperCase[i] = k
         -> lowerCase[CHOOSE i \in DOMAIN upperCase : upperCase[i] = k]
    [] OTHER         -> k

(***************************************************************************)
(* useSequentialShortcut                                                   *)
(***************************************************************************)
\* clearTimeout(timerRef.current): cancels the timer timerRef points at, if
\* it is still pending.  `timers` counts pending step timers, `timerRef`
\* says whether timerRef.current is one of them.
clearTimer(st) ==
  IF st.timerRef
    THEN [st EXCEPT !.timers = st.timers - 1, !.timerRef = FALSE]
    ELSE st

\* timerRef.current = setTimeout(..., timeoutMs)
setTimer(st) == [st EXCEPT !.timers = st.timers + 1, !.timerRef = TRUE]

\* state of a freshly mounted hook
useSequentialShortcut ==
  [ progress    |-> 0,
    error       |-> FALSE,
    completed   |-> FALSE,
    currentKey  |-> Null,
    pressedKeys |-> << >>,
    altPressed  |-> FALSE,
    timers      |-> 0,
    timerRef    |-> FALSE ]

resetKeepsTimer(st) ==
  [st EXCEPT !.progress = 0, !.error = FALSE, !.completed = FALSE,
             !.currentKey = Null, !.pressedKeys = << >>, !.altPressed = FALSE]

reset(st) ==
  clearTimer([st EXCEPT !.progress = 0, !.error = FALSE, !.completed = FALSE,
                        !.currentKey = Null, !.pressedKeys = << >>,
                        !.altPressed = FALSE])

stepTimeoutKeepsProgress(st) ==
  [st EXCEPT !.error = TRUE, !.currentKey = Null, !.altPressed = FALSE]

stepTimeoutKeepsPressedKeys(st) ==
  [st EXCEPT !.error = TRUE, !.progress = 0,
             !.currentKey = Null, !.altPressed = FALSE]

\* the callback handed to setTimeout by handleKey
stepTimeout(st) ==
  [st EXCEPT !.error = TRUE, !.progress = 0, !.pressedKeys = << >>,
             !.currentKey = Null, !.altPressed = FALSE]

\* sequence[i] in the source's 0-based indexing; undefined past the end
At(s, i) == IF i + 1 \in DOMAIN s THEN s[i + 1] ELSE "undefined"

\* "Handle Ctrl+D type shortcuts" and "Handle Ctrl+G type shortcuts"
isChord(s, letter) == Len(s) = 2 /\ s[1] = "ctrl" /\ s[2] = letter

handleChordNoModifier(st, ctrl, key, letter) ==
  IF key = letter
    THEN [st EXCEPT !.completed = TRUE, !.progress = 2,
                    !.pressedKeys = <<"ctrl", letter>>]
    ELSE st

handleChordErrorsOnMismatch(st, ctrl, key, letter) ==
  IF ctrl /\ key = letter
    THEN [st EXCEPT !.completed = TRUE, !.progress = 2,
                    !.pressedKeys = <<"ctrl", letter>>]
    ELSE [st EXCEPT !.error = TRUE]

handleChordPartial(st, ctrl, key, letter) ==
  IF ctrl /\ key = letter
    THEN [st EXCEPT !.completed = TRUE, !.progress = 2,
                    !.pressedKeys = <<"ctrl", letter>>]
    ELSE IF ctrl THEN [st EXCEPT !.progress = 1, !.pressedKeys = <<"ctrl">>]
    ELSE st

handleChord(st, ctrl, key, letter) ==
  IF ctrl /\ key = letter
    THEN [st EXCEPT !.completed = TRUE, !.progress = 2,
                    !.pressedKeys = <<"ctrl", letter>>]
    ELSE st

startSequenceKeepsError(st, key) ==
  setTimer(clearTimer([st EXCEPT !.progress = 1,
                                 !.currentKey = key, !.pressedKeys = <<key>>,
                                 !.altPressed = TRUE]))

\* "Start sequence with Alt"
startSequence(st, key) ==
  setTimer(clearTimer([st EXCEPT !.progress = 1, !.error = FALSE,
                                 !.currentKey = key, !.pressedKeys = <<key>>,
                                 !.altPressed = TRUE]))

continueSequenceNeverCompletes(st, s, key) ==
  setTimer(clearTimer([st EXCEPT !.progress = st.progress + 1, !.error = FALSE,
                                 !.currentKey = key,
                                 !.pressedKeys = Append(st.pressedKeys, key)]))

continueSequenceStacksTimers(st, s, key) ==
  LET st1 == [st EXCEPT !.progress = st.progress + 1, !.error = FALSE,
                        !.currentKey = key,
                        !.pressedKeys = Append(st.pressedKeys, key)]
  IN  IF st.progress + 1 = Len(s)
        THEN clearTimer([st1 EXCEPT !.completed = TRUE])
        ELSE setTimer(st1)

continueSequenceSkipsRepeats(st, s, key) ==
  LET n   == IF At(s, st.progress + 1) = key THEN 2 ELSE 1
      st1 == [st EXCEPT !.progress = st.progress + n, !.error = FALSE,
                        !.currentKey = key,
                        !.pressedKeys = SubSeq(s, 1, st.progress + n)]
  IN  IF st.progress + n = Len(s)
        THEN clearTimer([st1 EXCEPT !.completed = TRUE])
        ELSE setTimer(clearTimer(st1))

continueSequenceCompletesWithTimer(st, s, key) ==
  LET st1 == [st EXCEPT !.progress = st.progress + 1, !.error = FALSE,
                        !.currentKey = key,
                        !.pressedKeys = Append(st.pressedKeys, key)]
  IN  IF st.progress + 1 = Len(s)
        THEN [st1 EXCEPT !.completed = TRUE]
        ELSE setTimer(clearTimer(st1))

\* "Continue sequence after Alt"
continueSequence(st, s, key) ==
  LET st1 == [st EXCEPT !.progress = st.progress + 1, !.error = FALSE,
                        !.currentKey = key,
                        !.pressedKeys = Append(st.pressedKeys, key)]
  IN  IF st.progress + 1 = Len(s)
        THEN clearTimer([st1 EXCEPT !.completed = TRUE])
        ELSE setTimer(clearTimer(st1))

wrongKeyKeepsTimer(st) ==
  [st EXCEPT !.error = TRUE, !.progress = 0, !.pressedKeys = << >>,
             !.currentKey = Null, !.altPressed = FALSE]

wrongKeyKeepsPressedKeys(st) ==
  clearTimer([st EXCEPT !.error = TRUE, !.progress = 0,
                        !.currentKey = Null, !.altPressed = FALSE])

\* "Wrong key in sequence"
wrongKey(st) ==
  clearTimer([st EXCEPT !.error = TRUE, !.progress = 0, !.pressedKeys = << >>,
                        !.currentKey = Null, !.altPressed = FALSE])

handleSequentialIgnoresAltFlag(st, s, key, alt) ==
  IF st.progress = 0 /\ key = "alt" THEN startSequence(st, key)
  ELSE IF st.progress > 0 /\ key = At(s, st.progress) THEN continueSequence(st, s, key)
  ELSE IF st.progress > 0 /\ key # At(s, st.progress) THEN wrongKey(st)
  ELSE st

handleSequentialFiltersRepeats(st, s, key, alt) ==
  IF st.progress = 0 /\ key = "alt" /\ alt THEN startSequence(st, key)
  ELSE IF st.progress > 0 /\ key = At(s, st.progress) THEN continueSequence(st, s, key)
  ELSE IF st.progress > 0 /\ key = st.currentKey THEN st
  ELSE IF st.progress > 0 /\ key # At(s, st.progress) THEN wrongKey(st)
  ELSE st

\* "Handle sequential shortcuts (Alt + X + A + T, etc.)"
handleSequential(st, s, key, alt) ==
  IF st.progress = 0 /\ key = "alt" /\ alt THEN startSequence(st, key)
  ELSE IF st.progress > 0 /\ key = At(s, st.progress) THEN continueSequence(st, s, key)
  ELSE IF st.progress > 0 /\ key # At(s, st.progress) THEN wrongKey(st)
  ELSE st

\* const ctrl = isMac ? e.metaKey : e.ctrlKey
primaryFlag(mac, e) == IF mac THEN e.metaKey ELSE e.ctrlKey

handleKeyWhenCompleted(st, s, mac, e) ==
  LET key == toLowerCase(e.key)
  IN  IF Len(s) > 2
        THEN handleSequential(st, s, key, e.altKey)
        ELSE handleChord(st, primaryFlag(mac, e), key, At(s, 1))

handleKeyChordRejectsAlt(st, s, mac, e) ==
  IF st.completed THEN st
  ELSE
    LET key  == toLowerCase(e.key)
        ctrl == primaryFlag(mac, e) /\ ~e.altKey
        alt  == e.altKey
        st0  == IF key = "alt" THEN [st EXCEPT !.altPressed = alt] ELSE st
    IN  IF isChord(s, "d") THEN handleChord(st0, ctrl, key, "d")
        ELSE IF isChord(s, "g") THEN handleChord(st0, ctrl, key, "g")
        ELSE IF Len(s) > 2 THEN handleSequential(st0, s, key, alt)
        ELSE st0

\* handleKey(e) for a hook created with sequence s on platform mac
handleKey(st, s, mac, e) ==
  IF st.completed THEN st
  ELSE
    LET key  == toLowerCase(e.key)
        ctrl == primaryFlag(mac, e)
        alt  == e.altKey
        st0  == IF key = "alt" THEN [st EXCEPT !.altPressed = alt] ELSE st
    IN  IF isChord(s, "d") THEN handleChord(st0, ctrl, key, "d")
        ELSE IF isChord(s, "g") THEN handleChord(st0, ctrl, key, "g")
        ELSE IF Len(s) > 2 THEN handleSequential(st0, s, key, alt)
        ELSE st0

\* what handleKey reads from the render that created it:
\* useCallback(..., [progress, sequence, completed, timeoutMs, isMac])
captured(st) == [progress |-> st.progress, completed |-> st.completed]

\* handleKey of the render that captured `cap`, called when the hook's state
\* is st: it reads progress and completed from cap, its functional update
\* of pressedKeys and timerRef act on the current state, and the state it
\* does not set stays as it is (whenever it sets progress, it sets a value
\* other than the one it captured)
handleKeyIn(cap, st, s, mac, e) ==
  LET r == handleKey([st EXCEPT !.progress = cap.progress,
                                !.completed = cap.completed], s, mac, e)
  IN  [r EXCEPT !.progress  = IF r.progress = cap.progress
                                THEN st.progress ELSE r.progress,
                !.completed = IF r.completed = cap.completed
                                THEN st.completed ELSE r.completed]

cooldownPendingAfterRestart(st) == st.error \/ st.progress = 1

\* "Reset shake after error" in the hook's users: the effect arms the
\* cool-down when seq.error is true and its cleanup cancels it when
\* seq.error changes
cooldownPending(st) == st.error

\* history of the key events handled since progress was last 0
histAfterKey(st, h, e) ==
  LET entry == [key |-> toLowerCase(e.key), alt |-> e.altKey]
  IN  IF st.completed THEN h
      ELSE IF st.progress = 0 THEN <<entry>>
      ELSE Append(h, entry)

(***************************************************************************)
(* A bare hook instance driven by key events, timer expiry and reset       *)
(***************************************************************************)
EngineInit ==
  /\ view = "engine"
  /\ sequence \in Definitions
  /\ isMac \in BOOLEAN
  /\ seq = useSequentialShortcut
  /\ hist = << >>
  /\ prev = useSequentialShortcut
  /\ lastOp = "mount"
  /\ lastCtrl = FALSE
  /\ expiredAt = 0
  /\ wrapper = NoWrapper
  /\ game = NoGame
  /\ clock = 0
  /\ orphans = {}
  /\ closed = "none"
  /\ probe = NoProbe
  /\ closure = captured(useSequentialShortcut)

\* a keydown event reaches seq.handleKey
KeyDown(e) ==
  /\ view = "engine"
  /\ seq' = handleKey(seq, sequence, isMac, e)
  /\ hist' = histAfterKey(seq, hist, e)
  /\ prev' = seq
  /\ lastOp' = "key"
  /\ lastCtrl' = primaryFlag(isMac, e)
  /\ expiredAt' = IF lastOp = "timeout" THEN expiredAt ELSE 0
  /\ UNCHANGED <<sequence, isMac, view, wrapper, game, clock, orphans, closed, probe,
                 closure>>

\* a pending step timer expires and runs its callback
StepTimerFires ==
  /\ view = "engine"
  /\ seq.timers > 0
  /\ \E live \in (IF seq.timers = 1 THEN {FALSE} ELSE {seq.timerRef}) :
       seq' = stepTimeout([seq EXCEPT !.timers = seq.timers - 1, !.timerRef = live])
  /\ hist' = << >>
  /\ prev' = seq
  /\ lastOp' = "timeout"
  /\ lastCtrl' = FALSE
  /\ expiredAt' = seq.progress
  /\ UNCHANGED <<sequence, isMac, view, wrapper, game, clock, orphans, closed, probe,
                 closure>>

\* the caller invokes seq.reset()
Reset ==
  /\ view = "engine"
  /\ seq' = reset(seq)
  /\ hist' = << >>
  /\ prev' = seq
  /\ lastOp' = "reset"
  /\ lastCtrl' = FALSE
  /\ expiredAt' = 0
  /\ UNCHANGED <<sequence, isMac, view, wrapper, game, clock, orphans, closed, probe,
                 closure>>

EngineNext ==
  \/ \E e \in KeyboardEvent : KeyDown(e)
  \/ StepTimerFires
  \/ Reset

EngineSpec == EngineInit /\ [][EngineNext]_vars

(***************************************************************************)
(* A hook instance and the keydown listener of the component using it.     *)
(* React renders, and runs the effect that replaces the listener, before   *)
(* the next event when state was set in the keydown handler; state set in  *)
(* a setTimeout callback is rendered in a later task, and a key event can  *)
(* be dispatched before that.                                              *)
(***************************************************************************)
ClosureInit ==
  /\ view = "closure"
  /\ sequence \in Definitions
  /\ isMac \in BOOLEAN
  /\ seq = useSequentialShortcut
  /\ closure = captured(useSequentialShortcut)
  /\ hist = << >>
  /\ prev = useSequentialShortcut
  /\ lastOp = "mount"
  /\ lastCtrl = FALSE
  /\ expiredAt = 0
  /\ wrapper = NoWrapper
  /\ game = NoGame
  /\ clock = 0
  /\ orphans = {}
  /\ closed = "none"
  /\ probe = NoProbe

\* a keydown event reaches the listener, which calls the handleKey it holds;
\* the render that follows replaces the listener
ListenerKeyDown(e) ==
  /\ view = "closure"
  /\ seq' = handleKeyIn(closure, seq, sequence, isMac, e)
  /\ closure' = captured(seq')
  /\ hist' = <<[key |-> toLowerCase(e.key), alt |-> e.altKey]>>
  /\ prev' = seq
  /\ lastOp' = "key"
  /\ lastCtrl' = primaryFlag(isMac, e)
  /\ UNCHANGED <<sequence, isMac, expiredAt, view, wrapper, game, clock, orphans,
                 closed, probe>>

\* the step timer's callback sets state; the listener is not replaced yet
ListenerStepTimerFires ==
  /\ view = "closure"
  /\ seq.timers > 0
  /\ \E live \in (IF seq.timers = 1 THEN {FALSE} ELSE {seq.timerRef}) :
       seq' = stepTimeout([seq EXCEPT !.timers = seq.timers - 1, !.timerRef = live])
  /\ prev' = seq
  /\ lastOp' = "timeout"
  /\ UNCHANGED <<sequence, isMac, hist, lastCtrl, expiredAt, view, wrapper, game,
                 clock, orphans, closed, probe, closure>>

\* the cool-down's callback calls seq.reset(); the listener is not replaced
\* yet
ListenerReset ==
  /\ view = "closure"
  /\ cooldownPending(seq)
  /\ seq' = reset(seq)
  /\ prev' = seq
  /\ lastOp' = "reset"
  /\ UNCHANGED <<sequence, isMac, hist, lastCtrl, expiredAt, view, wrapper, game,
                 clock, orphans, closed, probe, closure>>

\* React renders the state set by a timer callback and the effect replaces
\* the listener
ListenerRender ==
  /\ view = "closure"
  /\ closure # captured(seq)
  /\ closure' = captured(seq)
  /\ lastOp' = "render"
  /\ UNCHANGED <<sequence, isMac, seq, hist, prev, lastCtrl, expiredAt, view,
                 wrapper, game, clock, orphans, closed, probe>>

ClosureNext ==
  \/ \E e \in KeyboardEvent : ListenerKeyDown(e)
  \/ ListenerStepTimerFires
  \/ ListenerReset
  \/ ListenerRender

ClosureSpec == ClosureInit /\ [][ClosureNext]_vars

(***************************************************************************)
(* Game components                                                         *)
(***************************************************************************)
\* the components ShortcutGameWrapper renders that use useSequentialShortcut
HookGames == {"group", "duplicate", "swapPositions", "groupSimilar"}

\* the `shortcutSequence` constant of each hook-based game
shortcutSequence(cmd) ==
  CASE cmd = "group"         -> <<"ctrl", "g">>
    [] cmd = "duplicate"     -> <<"ctrl", "d">>
    [] cmd = "swapPositions" -> <<"alt", "p", "s", "w">>
    [] cmd = "groupSimilar"  -> <<"alt", "x", "b", "s">>
    [] OTHER                 -> << >>

\* the letters the inline recognisers track after alt
inlineLetters(cmd) ==
  CASE cmd = "alignTop"               -> <<"x", "a", "t">>
    [] cmd = "alignTopFirst"          -> <<"p", "a", "t">>
    [] cmd = "distributeHorizontally" -> <<"x", "d", "h">>
    [] OTHER                          -> << >>

\* delay in ms between recognition and onComplete (AlignTop: setCompleted)
completeDelay(cmd) ==
  CASE cmd = "group"                  -> 1500
    [] cmd = "duplicate"              -> 1000
    [] cmd = "swapPositions"          -> 1000
    [] cmd = "groupSimilar"           -> 1000
    [] cmd = "alignTop"               -> 500
    [] OTHER                          -> 800

\* initial timeLeft of the game the wrapper renders for cmd,
\* useState(isRandomMode ? timeLimit : 0): GroupShortcut is rendered without
\* a timeLimit prop (default 5), AlignTopShortcut has neither prop and
\* starts at 5
initialTimeLeft(cmd, timeLimit, isRandomMode) ==
  IF cmd = "alignTop" THEN 5
  ELSE IF ~isRandomMode THEN 0
  ELSE IF cmd = "group" THEN 5
  ELSE timeLimit

\* "Timer countdown - only in random mode"; AlignTopShortcut's "starts
\* immediately"
countsDown(cmd, isRandomMode) == cmd = "alignTop" \/ isRandomMode

\* /^[a-zA-Z]$/.test(key)
isLetter(k) ==
  k \in {"a", "b", "c", "d", "e", "f", "g", "h", "i", "j", "k", "l", "m", "n",
         "o", "p", "q", "r", "s", "t", "u", "v", "w", "x", "y", "z",
         "A", "B", "C", "D", "E", "F", "G", "H", "I", "J", "K", "L", "M", "N",
         "O", "P", "Q", "R", "S", "T", "U", "V", "W", "X", "Y", "Z"}

normalizeKeyNoTable(key, altPressed) == toLowerCase(key)

normalizeKey(key, altPressed) ==
  IF altPressed /\ isLetter(key) THEN toLowerCase(key)
  ELSE IF key \in DOMAIN macKeyMap THEN macKeyMap[key]
  ELSE toLowerCase(key)

\* normalizeKey called on its own with every key value and flag
NormalizerKeys ==
  RawKeys \cup {lowerCase[i] : i \in DOMAIN lowerCase}
          \cup {upperCase[i] : i \in DOMAIN upperCase}
          \cup {"Shift", "Enter", "U+00C5", "1", " "}

NormalizerInit ==
  /\ view = "normalizer"
  /\ probe \in [key : NormalizerKeys, altPressed : BOOLEAN, result : {Null}]
  /\ isMac = FALSE
  /\ sequence = << >>
  /\ seq = useSequentialShortcut
  /\ hist = << >>
  /\ prev = useSequentialShortcut
  /\ lastOp = "mount"
  /\ lastCtrl = FALSE
  /\ expiredAt = 0
  /\ wrapper = NoWrapper
  /\ game = NoGame
  /\ clock = 0
  /\ orphans = {}
  /\ closed = "none"
  /\ closure = captured(useSequentialShortcut)

Normalize ==
  /\ view = "normalizer"
  /\ probe.result = Null
  /\ probe' = [probe EXCEPT !.result = normalizeKey(probe.key, probe.altPressed)]
  /\ UNCHANGED <<sequence, isMac, seq, hist, prev, lastOp, lastCtrl, expiredAt,
                 view, wrapper, game, clock, orphans, closed, closure>>

NormalizerNext == Normalize

NormalizerSpec == NormalizerInit /\ [][NormalizerNext]_vars

\* state of a freshly mounted game component
mountGame(cmd, timeLimit, isRandomMode) ==
  [ cmd       |-> cmd,
    isRandomMode |-> isRandomMode,
    timeLeft  |-> initialTimeLeft(cmd, timeLimit, isRandomMode),
    interval  |-> countsDown(cmd, isRandomMode),
                             \* the countdown interval behind timerRef
    done      |-> FALSE,     \* done.current
    finished  |-> FALSE,     \* swapped / duplicated / grouped / aligned / distributed
    completed |-> FALSE,     \* the component's own `completed` state
    pending   |-> FALSE,     \* the setTimeout armed on recognition
    sequence  |-> << >>,     \* inline recognisers: the `sequence` state
    selected  |-> 0,         \* GroupShortcut: number of selected objects
    completionTime |-> 0 ]   \* ms from mount to recognition

finishKeepsInterval(g, now) ==
  [g EXCEPT !.done = TRUE, !.finished = TRUE, !.pending = TRUE,
            !.completionTime = now]

\* recognition succeeded: "if (seq.completed && !done.current)" and the
\* "if (!done.current)" block of the inline recognisers
finish(g, now) ==
  [g EXCEPT !.done = TRUE, !.finished = TRUE, !.interval = FALSE, !.pending = TRUE,
            !.completionTime = now]

handleKeyDownClearsOnWrongKey(g, e, now) ==
  IF g.completed THEN g
  ELSE
    LET normalized == normalizeKey(e.key, e.altKey)
        l          == inlineLetters(g.cmd)
    IN  IF e.altKey /\ normalized = l[1] THEN [g EXCEPT !.sequence = <<l[1]>>]
        ELSE IF e.altKey /\ Len(g.sequence) = 1 /\ g.sequence[1] = l[1] /\ normalized = l[2]
          THEN [g EXCEPT !.sequence = <<l[1], l[2]>>]
        ELSE IF e.altKey /\ Len(g.sequence) = 2 /\ g.sequence[2] = l[2] /\ normalized = l[3]
          THEN (IF ~g.done THEN finish(g, now) ELSE g)
        ELSE [g EXCEPT !.sequence = << >>]

\* handleKeyDown of the inline recognisers, called at time `now` after mount
handleKeyDown(g, e, now) ==
  IF g.completed THEN g
  ELSE
    LET normalized == normalizeKey(e.key, e.altKey)
        l          == inlineLetters(g.cmd)
    IN  IF e.altKey /\ normalized = l[1] THEN [g EXCEPT !.sequence = <<l[1]>>]
        ELSE IF e.altKey /\ Len(g.sequence) = 1 /\ g.sequence[1] = l[1] /\ normalized = l[2]
          THEN [g EXCEPT !.sequence = <<l[1], l[2]>>]
        ELSE IF e.altKey /\ Len(g.sequence) = 2 /\ g.sequence[2] = l[2] /\ normalized = l[3]
          THEN (IF ~g.done THEN finish(g, now) ELSE g)
        ELSE IF ~e.altKey THEN [g EXCEPT !.sequence = << >>]
        ELSE g

(***************************************************************************)
(* ShortcutGameWrapper                                                     *)
(***************************************************************************)
allCommands ==
  <<"group", "duplicate", "alignTop", "alignTopFirst", "distributeHorizontally",
    "swapPositions", "groupSimilar">>

difficultyTime == [easy |-> 8, normal |-> 5, hard |-> 3]

Min(a, b) == IF a < b THEN a ELSE b

Max(a, b) == IF a > b THEN a ELSE b

\* the values of shuffle(allCommands).slice(0, n) that stay within Pool
shuffleSlice(n) ==
  {s \in [1..n -> {allCommands[i] : i \in DOMAIN allCommands} \cap Pool] :
     \A i, j \in 1..n : i # j => s[i] # s[j]}

sessionLengthUnclamped(count) == Min(count, Len(allCommands))

\* number of challenges of a random-mode session
sessionLength(count) == Max(2, Min(count, Len(allCommands)))

\* the sequences of n distinct elements of the set S
RECURSIVE Arrangements(_, _)
Arrangements(S, n) ==
  IF n <= 0 THEN {<< >>}
  ELSE UNION {{<<x>> \o p : p \in Arrangements(S \ {x}, n - 1)} : x \in S}

\* every value of shuffle(allCommands).slice(0, n)
shuffle(n) == Arrangements({allCommands[i] : i \in DOMAIN allCommands}, n)

\* the wrapper after mounting in random mode and running its init effect
initWrapper(commands, difficulty) ==
  [ randomCommands |-> commands,
    currentIdx     |-> 0,
    countdown      |-> 3,
    started        |-> FALSE,
    times          |-> << >>,
    timeouts       |-> << >>,
    showSummary    |-> FALSE,
    score          |-> Len(commands),
    total          |-> Len(commands),
    difficulty     |-> difficulty,    \* testConfig.difficulty
    isRandomMode   |-> TRUE,
    command        |-> Null ]

\* the wrapper after mounting for one selected command (isRandomMode false)
initWrapperSingle(cmd, difficulty) ==
  [ randomCommands |-> << >>,
    currentIdx     |-> 0,
    countdown      |-> NoCountdown,
    started        |-> TRUE,
    times          |-> << >>,
    timeouts       |-> << >>,
    showSummary    |-> FALSE,
    score          |-> 1,
    total          |-> 1,
    difficulty     |-> difficulty,
    isRandomMode   |-> FALSE,
    command        |-> cmd ]

timeLimit(w) == difficultyTime[w.difficulty]

nextOrSummaryOffByOne(w, idx) ==
  IF idx < Len(w.randomCommands)
    THEN [w EXCEPT !.currentIdx = w.currentIdx + 1]
    ELSE [w EXCEPT !.showSummary = TRUE]

\* "Next game or summary", with the currentIdx the closure captured
nextOrSummary(w, idx) ==
  IF idx < Len(w.randomCommands) - 1
    THEN [w EXCEPT !.currentIdx = w.currentIdx + 1]
    ELSE [w EXCEPT !.showSummary = TRUE]

handleComplete(w, idx, elapsed) ==
  nextOrSummary([w EXCEPT !.times = Append(w.times, elapsed),
                          !.timeouts = Append(w.timeouts, FALSE)], idx)

handleTimeoutNoDeduction(w, idx) ==
  nextOrSummary([w EXCEPT !.times = Append(w.times, 5000),
                          !.timeouts = Append(w.timeouts, TRUE)], idx)

handleTimeout(w, idx) ==
  nextOrSummary([w EXCEPT !.times = Append(w.times, 5000),
                          !.timeouts = Append(w.timeouts, TRUE),
                          !.score = Max(0, w.score - 1)], idx)

\* the summary's verdict line
getScoreMessage(score) ==
  IF score = 5 THEN "Perfect Score!"
  ELSE IF score >= 4 THEN "Excellent Work!"
  ELSE IF score >= 2 THEN "Good Effort!"
  ELSE "Keep Practicing!"

\* the summary's row of stars: [...Array(5)], star i filled when i < score
filledStars(score) == Cardinality({i \in 0..4 : i < score})

\* const activeCmd = isRandomMode ? randomCommands[currentIdx] : command,
\* when the game view renders
activeCmd(w) ==
  IF ~w.isRandomMode THEN w.command
  ELSE IF w.started /\ ~w.showSummary /\ w.currentIdx + 1 \in DOMAIN w.randomCommands
    THEN w.randomCommands[w.currentIdx + 1]
    ELSE Null

callsOnBackNever(w) == FALSE

\* the "else { onBack(); }" of handleComplete and handleTimeout
callsOnBack(w) == ~w.isRandomMode

(***************************************************************************)
(* A random-mode session: the wrapper, the game it renders and that game's *)
(* hook                                                                    *)
(***************************************************************************)
historyVars == <<hist, prev, lastOp, lastCtrl, expiredAt, probe, closure>>

SessionInit ==
  /\ view = "session"
  /\ isMac \in BOOLEAN
  /\ \E count \in 0..MaxCount, difficulty \in DOMAIN difficultyTime :
       \E commands \in shuffleSlice(sessionLength(count)) :
         wrapper = initWrapper(commands, difficulty)
  /\ game = NoGame
  /\ sequence = << >>
  /\ seq = useSequentialShortcut
  /\ clock = 0
  /\ orphans = {}
  /\ closed = "none"
  /\ probe = NoProbe
  /\ closure = captured(useSequentialShortcut)
  /\ hist = << >>
  /\ prev = useSequentialShortcut
  /\ lastOp = "mount"
  /\ lastCtrl = FALSE
  /\ expiredAt = 0

completionCallbackIgnoresMode(cmd, isRandomMode) ==
  IF cmd = "alignTop" THEN "setCompleted" ELSE "onComplete"

\* the callback of the setTimeout a game arms on recognition:
\* "if (isRandomMode) setTimeout(() => onComplete?.(), ...) else
\* setTimeout(() => setCompleted(true), ...)"; AlignTopShortcut always arms
\* setCompleted
completionCallback(cmd, isRandomMode) ==
  IF cmd = "alignTop" \/ ~isRandomMode THEN "setCompleted" ELSE "onComplete"

\* The timeouts of game g, rendered by wrapper w, that are still pending
\* after g is unmounted.  The effect cleanups clear the countdown interval,
\* the hook's step timer and the error cool-down; the timeout armed on
\* recognition has no cleanup.  An onComplete is kept with the
\* handleComplete closure it calls: whether that wrapper is still mounted
\* (live), its isRandomMode and its currentIdx; a setCompleted reaches the
\* unmounted game only and has no such closure.
cleanup(g, w) ==
  IF g = NoGame \/ ~g.pending THEN {}
  ELSE IF completionCallback(g.cmd, g.isRandomMode) = "onComplete"
    THEN {[callback |-> "onComplete", live |-> TRUE,
           isRandomMode |-> w.isRandomMode, idx |-> w.currentIdx]}
    ELSE {[callback |-> "setCompleted", live |-> FALSE,
           isRandomMode |-> FALSE, idx |-> 0]}

\* the wrapper itself is unmounted: state updates of its handlers are
\* dropped from now on
unmounted(orph) == {[o EXCEPT !.live = FALSE, !.idx = 0] : o \in orph}

\* The wrapper renders with state w2: the game of another command replaces
\* the mounted one, whose state at that moment is g (unmounting clears its
\* interval, its hook's step timer and its cool-down), and advancing sets
\* startTimeRef.current = Date.now().
Render(w2, elapsed, g, orph) ==
  LET cmd == activeCmd(w2)
  IN  /\ wrapper' = w2
      /\ IF cmd = game.cmd
           THEN /\ game' = g
                /\ orphans' = orph
                /\ UNCHANGED <<seq, sequence>>
           ELSE /\ game' = IF cmd = Null THEN NoGame
                           ELSE mountGame(cmd, timeLimit(w2), w2.isRandomMode)
                /\ seq' = useSequentialShortcut
                /\ sequence' = shortcutSequence(cmd)
                /\ orphans' = orph \cup cleanup(g, wrapper)
      /\ clock' = IF w2.currentIdx # wrapper.currentIdx \/ w2.started # wrapper.started
                    THEN 0 ELSE elapsed
      /\ UNCHANGED <<view, closed>>

\* PowerPointShortcutTrainer.handleBack: the trainer shows the menu again
\* and the wrapper, its game and the game's hook are unmounted
handleBack(g, orph, how) ==
  /\ view' = "menu"
  /\ wrapper' = NoWrapper
  /\ game' = NoGame
  /\ seq' = useSequentialShortcut
  /\ sequence' = << >>
  /\ clock' = 0
  /\ orphans' = unmounted(orph \cup cleanup(g, wrapper))
  /\ closed' = how

\* the tail of handleComplete and handleTimeout: "Next game or summary" in
\* random mode, onBack() otherwise
Finish(w2, elapsed, g, orph, how) ==
  IF callsOnBack(wrapper) THEN handleBack(g, orph, how)
  ELSE Render(w2, elapsed, g, orph)

\* the 3-2-1 countdown before the first challenge
CountdownTick ==
  /\ view = "session"
  /\ wrapper.isRandomMode /\ ~wrapper.started /\ wrapper.countdown > 0
  /\ IF wrapper.countdown > 1
       THEN /\ wrapper' = [wrapper EXCEPT !.countdown = wrapper.countdown - 1]
            /\ UNCHANGED <<game, seq, sequence, clock, orphans, view, closed>>
       ELSE Render([wrapper EXCEPT !.countdown = NoCountdown, !.started = TRUE], 0,
                   game, orphans)
  /\ UNCHANGED <<isMac, historyVars>>

\* the game's one-second interval fires; at zero the timeout effect calls
\* onTimeout
IntervalTick ==
  /\ view = "session"
  /\ game # NoGame /\ game.interval
  /\ LET left == IF game.timeLeft <= 1 THEN 0 ELSE game.timeLeft - 1
     IN  IF left = 0 /\ ~game.completed
           THEN Finish(handleTimeout(wrapper, wrapper.currentIdx), clock + 1000,
                       game, orphans, "timedOut")
           ELSE /\ game' = [game EXCEPT !.timeLeft = left, !.interval = (left # 0)]
                /\ clock' = clock + 1000
                /\ UNCHANGED <<wrapper, seq, sequence, orphans, view, closed>>
  /\ UNCHANGED <<isMac, historyVars>>

tooFewSelectedNever(g) == FALSE

\* GroupShortcut's completion effect: the else branch of
\* "if (selectedObjects.length >= 2)"
tooFewSelected(g) == g.cmd = "group" /\ g.selected < 2

\* a keydown event reaches the mounted game's listener
GameKeyDown(e) ==
  /\ view = "session"
  /\ game # NoGame
  /\ IF game.cmd \in HookGames
       THEN /\ ~(game.completed \/ game.finished)
            /\ LET st == handleKey(seq, sequence, isMac, e)
               IN  IF st.completed /\ ~game.done
                     THEN IF tooFewSelected(game)
                            THEN seq' = reset(st) /\ game' = game
                            ELSE seq' = st /\ game' = finish(game, clock)
                     ELSE seq' = st /\ game' = game
       ELSE /\ game' = handleKeyDown(game, e, clock)
            /\ seq' = seq
  /\ UNCHANGED <<wrapper, clock, sequence, isMac, view, orphans, closed, historyVars>>

\* GroupShortcut: handleObjectClick toggles one of the five objects
ObjectClick ==
  /\ view = "session"
  /\ game.cmd = "group" /\ ~(game.completed \/ game.finished)
  /\ \E n \in {game.selected - 1, game.selected + 1} \cap 0..5 :
       game' = [game EXCEPT !.selected = n]
  /\ UNCHANGED <<wrapper, clock, seq, sequence, isMac, view, orphans, closed,
                 historyVars>>

\* the hook's step timer expires in the mounted game
GameStepTimerFires ==
  /\ view = "session"
  /\ game.cmd \in HookGames /\ seq.timers > 0
  /\ \E live \in (IF seq.timers = 1 THEN {FALSE} ELSE {seq.timerRef}) :
       seq' = stepTimeout([seq EXCEPT !.timers = seq.timers - 1, !.timerRef = live])
  /\ UNCHANGED <<wrapper, game, clock, sequence, isMac, view, orphans, closed,
                 historyVars>>

cooldownArmedUntilRender(g, st) ==
  g.cmd \in HookGames /\ st.error /\ ~g.interval

\* "Reset shake after error": the effect depends on [seq.error, seq] and seq
\* is a new object at every render, so after every render in which
\* seq.error holds the 600 ms cool-down is pending (cleared and armed again)
cooldownArmed(g, st) ==
  g.cmd \in HookGames /\ cooldownPending(st)

\* the cool-down fires and calls seq.reset()
CooldownFires ==
  /\ view = "session"
  /\ cooldownArmed(game, seq)
  /\ seq' = reset(seq)
  /\ UNCHANGED <<wrapper, game, clock, sequence, isMac, view, orphans, closed,
                 historyVars>>

\* the timeout armed on recognition fires: onComplete, or setCompleted(true)
PendingFires ==
  /\ view = "session"
  /\ game # NoGame /\ game.pending
  /\ IF completionCallback(game.cmd, game.isRandomMode) = "setCompleted"
       THEN /\ game' = [game EXCEPT !.pending = FALSE, !.completed = TRUE]
            /\ clock' = clock + completeDelay(game.cmd)
            /\ UNCHANGED <<wrapper, seq, sequence, orphans, view, closed>>
       ELSE Finish(handleComplete(wrapper, wrapper.currentIdx,
                                  clock + completeDelay(game.cmd)),
                   clock + completeDelay(game.cmd),
                   [game EXCEPT !.pending = FALSE], orphans, "completed")
  /\ UNCHANGED <<isMac, historyVars>>

\* the Continue button of a game's congratulation screen: onComplete
ContinueClick ==
  /\ view = "session"
  /\ game # NoGame /\ game.completed
  /\ Finish(handleComplete(wrapper, wrapper.currentIdx, clock), clock, game,
            orphans, "completed")
  /\ UNCHANGED <<isMac, historyVars>>

SessionNext ==
  \/ CountdownTick
  \/ IntervalTick
  \/ \E e \in SessionEvents : GameKeyDown(e)
  \/ ObjectClick
  \/ GameStepTimerFires
  \/ CooldownFires
  \/ PendingFires
  \/ ContinueClick

SessionSpec == SessionInit /\ [][SessionNext]_vars

\* the browser runs every timer callback that stays scheduled: the 3-2-1
\* countdown, the games' one-second interval, the timeout armed on
\* recognition and the error cool-down; key events and clicks are the
\* user's and may never come
SessionFairSpec ==
  /\ SessionSpec
  /\ WF_vars(CountdownTick)
  /\ WF_vars(IntervalTick)
  /\ WF_vars(PendingFires)
  /\ WF_vars(CooldownFires)

(***************************************************************************)
(* The trainer: the menu, and the wrapper it mounts                        *)
(***************************************************************************)
\* the trainer on its menu, nothing else mounted
TrainerInit ==
  /\ view = "menu"
  /\ isMac \in BOOLEAN
  /\ wrapper = NoWrapper
  /\ game = NoGame
  /\ sequence = << >>
  /\ seq = useSequentialShortcut
  /\ clock = 0
  /\ orphans = {}
  /\ closed = "none"
  /\ probe = NoProbe
  /\ closure = captured(useSequentialShortcut)
  /\ hist = << >>
  /\ prev = useSequentialShortcut
  /\ lastOp = "mount"
  /\ lastCtrl = FALSE
  /\ expiredAt = 0

\* PowerPointShortcutTrainer.handleRandom(cfg), the wrapper's mount in random
\* mode and its init effect, which draws `commands`
handleRandom(commands, difficulty) ==
  /\ view = "menu"
  /\ view' = "session"
  /\ wrapper' = initWrapper(commands, difficulty)
  /\ closed' = "none"
  /\ UNCHANGED <<game, seq, sequence, clock, orphans, isMac, historyVars>>

\* ShortcutMenu: the challenges offered one by one
implementedShortcuts ==
  {"group", "duplicate", "alignTop", "alignTopFirst", "distributeHorizontally"}

\* ShortcutMenu: the count its configuration dialog starts with
selectCount == 2

\* the Start button of the menu's configuration dialog, with the count left
\* as it is
Random ==
  /\ view = "menu"
  /\ \E difficulty \in DOMAIN difficultyTime :
       \E commands \in shuffleSlice(sessionLength(selectCount)) :
         handleRandom(commands, difficulty)

\* PowerPointShortcutTrainer.handleSelect(cmd) and the wrapper's mount for
\* that one command; testConfig.difficulty is whatever was configured last
handleSelect(cmd, difficulty) ==
  /\ view = "menu"
  /\ view' = "session"
  /\ wrapper' = initWrapperSingle(cmd, difficulty)
  /\ game' = mountGame(cmd, difficultyTime[difficulty], FALSE)
  /\ seq' = useSequentialShortcut
  /\ sequence' = shortcutSequence(cmd)
  /\ clock' = 0
  /\ closed' = "none"
  /\ UNCHANGED <<orphans, isMac, historyVars>>

\* the wrapper's Back button (game view) or "Back to Menu" (summary); the
\* countdown screen has neither
Back ==
  /\ view = "session"
  /\ wrapper.started
  /\ handleBack(game, orphans, "back")
  /\ UNCHANGED <<isMac, historyVars>>

\* A timeout of an unmounted game fires.  setCompleted reaches only the
\* unmounted game.  onComplete runs the handleComplete closure of the
\* wrapper that rendered the game: its state updates take effect only if
\* that wrapper is still mounted, its onBack() reaches the trainer either
\* way.
OrphanFires ==
  /\ view \in {"menu", "session"}
  /\ \E o \in orphans :
       LET rest == orphans \ {o}
       IN  IF o.callback = "onComplete" /\ o.live
             THEN Finish(handleComplete(wrapper, o.idx, clock), clock, game, rest,
                         "completed")
           ELSE IF o.callback = "onComplete" /\ ~o.isRandomMode /\ view = "session"
             THEN handleBack(game, rest, "back")
           ELSE /\ orphans' = rest
                /\ UNCHANGED <<view, wrapper, game, seq, sequence, clock, closed>>
  /\ UNCHANGED <<isMac, historyVars>>

TrainerNext ==
  \/ SessionNext
  \/ Random
  \/ \E cmd \in implementedShortcuts \cap Pool, difficulty \in DOMAIN difficultyTime :
       handleSelect(cmd, difficulty)
  \/ Back
  \/ OrphanFires

TrainerSpec == TrainerInit /\ [][TrainerNext]_vars

(***************************************************************************)
(* Starting random-mode sessions with any requested count, over the whole  *)
(* catalog                                                                 *)
(***************************************************************************)
\* largest |testConfig.count| a session is requested with
MaxRequested == 8

StartRandom ==
  /\ view = "menu"
  /\ \E count \in (0 - MaxRequested)..MaxRequested, difficulty \in DOMAIN difficultyTime :
       \E commands \in shuffle(sessionLength(count)) :
         handleRandom(commands, difficulty)

ConfigNext == StartRandom

ConfigSpec == TrainerInit /\ [][ConfigNext]_vars

(***************************************************************************)
(* An inline recogniser on its own, selected from the menu, driven by key  *)
(* events                                                                  *)
(***************************************************************************)
\* the games that track the letters after alt in a `sequence` state of
\* their own
InlineGames == {"alignTop", "alignTopFirst", "distributeHorizontally"}

InlineInit ==
  /\ view = "inline"
  /\ \E cmd \in InlineGames : game = mountGame(cmd, difficultyTime.normal, FALSE)
  /\ isMac \in BOOLEAN
  /\ sequence = << >>
  /\ seq = useSequentialShortcut
  /\ hist = << >>
  /\ prev = useSequentialShortcut
  /\ lastOp = "mount"
  /\ lastCtrl = FALSE
  /\ expiredAt = 0
  /\ wrapper = NoWrapper
  /\ clock = 0
  /\ orphans = {}
  /\ closed = "none"
  /\ probe = NoProbe
  /\ closure = captured(useSequentialShortcut)

\* a keydown event reaches handleKeyDown; hist keeps that event as it came
InlineKeyDown(e) ==
  /\ view = "inline"
  /\ game' = handleKeyDown(game, e, 0)
  /\ hist' = <<[key |-> e.key, alt |-> e.altKey]>>
  /\ lastOp' = "key"
  /\ UNCHANGED <<sequence, isMac, seq, prev, lastCtrl, expiredAt, view, wrapper,
                 clock, orphans, closed, probe, closure>>

\* the timeout armed on recognition fires: setCompleted(true)
InlinePendingFires ==
  /\ view = "inline"
  /\ game.pending
  /\ game' = [game EXCEPT !.pending = FALSE, !.completed = TRUE]
  /\ lastOp' = "pending"
  /\ UNCHANGED <<sequence, isMac, seq, hist, prev, lastCtrl, expiredAt, view,
                 wrapper, clock, orphans, closed, probe, closure>>

InlineNext ==
  \/ \E e \in KeyboardEvent : InlineKeyDown(e)
  \/ InlinePendingFires

InlineSpec == InlineInit /\ [][InlineNext]_vars

(***************************************************************************)
(* Vocabulary of the properties                                            *)
(***************************************************************************)
\* an ordered-sequence definition: more than two tokens, starting with alt
OrderedDef(s) == Len(s) > 2 /\ s[1] = "alt"

\* a chord definition: two tokens, the first a primary-modifier token
ChordDef(s) == Len(s) = 2 /\ s[1] \in {"ctrl", "cmd"}

\* the keys of a history
Keys(h) == [i \in DOMAIN h |-> h[i].key]

\* the key of the last key event of a history
LastKey(h) == IF Len(h) > 0 THEN h[Len(h)].key ELSE Null

(***************************************************************************)
(* Properties of the hook                                                  *)
(***************************************************************************)
\* C1: in ordered-sequence mode, when the key events handled since progress
\* was last 0 are alt (alt flag true) followed by sequence[1..N-1] in order,
\* with no step-timer expiry in between, the hook is completed, progress is
\* N and pressedKeys equals the sequence.
C1_HappyPath ==
  (OrderedDef(sequence) /\ Keys(hist) = sequence /\ hist[1].alt)
    => (seq.completed /\ seq.progress = Len(sequence) /\ seq.pressedKeys = sequence)

C1_Witness ==
  /\ OrderedDef(sequence) /\ Keys(hist) = sequence
  /\ lastOp = "key" /\ prev.progress = Len(sequence) - 1 /\ seq.completed

\* C2: in ordered-sequence mode, a key event handled in Advancing(k) whose
\* key differs from sequence[k] leaves the hook in Error with progress 0,
\* no pressed keys and no step timer armed.
C2_WrongKey ==
  (/\ lastOp = "key" /\ OrderedDef(sequence)
   /\ ~prev.completed /\ prev.progress > 0 /\ prev.progress < Len(sequence)
   /\ LastKey(hist) # At(sequence, prev.progress))
    => (/\ seq.error /\ ~seq.completed /\ seq.progress = 0
        /\ seq.pressedKeys = << >> /\ seq.timers = 0 /\ ~seq.timerRef)

C2_Witness ==
  /\ sequence = <<"alt", "x", "a", "t">> /\ lastOp = "key"
  /\ Keys(hist) = <<"alt", "a">> /\ hist[1].alt
  /\ seq.error /\ seq.pressedKeys = << >>

C4_ChordCompleteness ==
  (/\ lastOp = "key" /\ ChordDef(sequence)
   /\ lastCtrl /\ LastKey(hist) = sequence[2])
    => (seq.completed /\ seq.progress = 2)

C6_Reset ==
  (lastOp = "reset")
    => (/\ seq.progress = 0 /\ ~seq.error /\ ~seq.completed
        /\ seq.pressedKeys = << >> /\ seq.timers = 0 /\ ~seq.timerRef
        /\ reset(seq) = seq)

C6_Witness ==
  lastOp = "reset" /\ prev.progress = 2 /\ prev.timers = 1 /\ seq.progress = 0

\* C7: a key event handled while the hook is completed changes nothing of
\* the hook's state and arms no timer.
C7_Sealed ==
  (lastOp = "key" /\ prev.completed) => seq = prev

C7_Witness ==
  lastOp = "key" /\ prev.completed /\ seq.completed /\ Len(sequence) > 2

(***************************************************************************)
(* Properties of a session                                                 *)
(***************************************************************************)
\* number of challenges of the session
K == Len(wrapper.randomCommands)

\* number of timed-out attempts recorded so far
T == Cardinality({i \in DOMAIN wrapper.timeouts : wrapper.timeouts[i]})

\* C8: total equals the number of challenges, the score stays within 0..K
\* and equals K minus the number of timed-out attempts recorded so far (so
\* it starts at K and a completion leaves it alone), and at the summary it
\* is max(0, K - T).
C8_Scoring ==
  /\ wrapper.total = K
  /\ wrapper.score >= 0 /\ wrapper.score <= K
  /\ wrapper.score = K - T
  /\ wrapper.showSummary => wrapper.score = Max(0, K - T)

C8_Witness ==
  /\ wrapper.showSummary /\ T = 1 /\ Len(wrapper.timeouts) = K
  /\ wrapper.score = K - 1

C10_TimeoutRecord ==
  \A i \in DOMAIN wrapper.timeouts :
    wrapper.timeouts[i] => wrapper.times[i] = timeLimit(wrapper) * 1000

\* C11: the elapsed time recorded for a completed challenge is the time from
\* the challenge's start to the moment its shortcut was recognised: whenever
\* a Completed record is appended, its time equals the game's
\* completionTime.
C11_ElapsedAtCompleted ==
  [][(/\ Len(wrapper'.times) = Len(wrapper.times) + 1
      /\ ~wrapper'.timeouts[Len(wrapper'.timeouts)])
       => wrapper'.times[Len(wrapper'.times)] = game.completionTime]_vars

(***************************************************************************)
(* Further properties of the hook                                          *)
(***************************************************************************)
\* the last key event handled was a press of alt with the alt flag active
AltPress == LastKey(hist) = "alt" /\ hist[Len(hist)].alt

C14_ChordNeverErrors ==
  ChordDef(sequence)
    => /\ ~seq.error /\ seq.timers = 0 /\ ~seq.timerRef
       /\ (/\ lastOp = "key" /\ ~prev.completed
           /\ ~(lastCtrl /\ LastKey(hist) = sequence[2]))
            => (/\ seq.progress = 0 /\ ~seq.error /\ ~seq.completed
                /\ seq.pressedKeys = << >>)

C14_Witness ==
  /\ sequence = <<"ctrl", "g">> /\ lastOp = "key" /\ ~prev.completed
  /\ LastKey(hist) = "g" /\ ~lastCtrl
  /\ seq.progress = 0 /\ ~seq.error /\ ~seq.completed

(***************************************************************************)
(* Further properties of a session                                         *)
(***************************************************************************)
\* C16: every challenge starts its countdown at the session's time limit
\* (difficultyTime of the difficulty), and a TimedOut record is appended
\* exactly when that many seconds have passed since the challenge started.
C16_CountdownLimit ==
  /\ []((game # NoGame /\ clock = 0) => game.timeLeft = timeLimit(wrapper))
  /\ [][(/\ Len(wrapper'.timeouts) = Len(wrapper.timeouts) + 1
          /\ wrapper'.timeouts[Len(wrapper'.timeouts)])
           => clock + 1000 = timeLimit(wrapper) * 1000]_vars

C18_CountClamp ==
  (view = "session" /\ wrapper.isRandomMode)
    => /\ K >= 2 /\ K <= Cardinality(GameCommand)
       /\ wrapper.total = K /\ wrapper.score = K
       /\ \A i \in 1..K : wrapper.randomCommands[i] \in GameCommand
       /\ \A i, j \in 1..K : i # j => wrapper.randomCommands[i] # wrapper.randomCommands[j]

C18_Witness ==
  /\ view = "session" /\ wrapper.isRandomMode
  /\ K = Cardinality(GameCommand) /\ wrapper.total = Cardinality(GameCommand)

SingleMode == view = "session" /\ ~wrapper.isRandomMode

Degenerate == {<< >>, <<"alt">>, <<"g">>}

\* an ordered sequence with the same token in consecutive positions; the
\* catalog has none
Repeating == {<<"alt", "x", "x", "t">>}

HookInit ==
  /\ view = "engine"
  /\ sequence \in Definitions \cup Degenerate \cup Repeating
  /\ isMac \in BOOLEAN
  /\ seq = useSequentialShortcut
  /\ hist = << >>
  /\ prev = useSequentialShortcut
  /\ lastOp = "mount"
  /\ lastCtrl = FALSE
  /\ expiredAt = 0
  /\ wrapper = NoWrapper
  /\ game = NoGame
  /\ clock = 0
  /\ orphans = {}
  /\ closed = "none"
  /\ probe = NoProbe
  /\ closure = captured(useSequentialShortcut)

HookSpec == HookInit /\ [][EngineNext]_vars

\* C20: a hook given a sequence of fewer than two tokens is in error from
\* its construction on, before it handles a key event or arms its step
\* timer.
C20_FailFast ==
  Len(sequence) < 2 => (seq.error /\ lastOp = "mount" /\ seq.timers = 0)

(***************************************************************************)
(* Properties of the key normaliser                                        *)
(***************************************************************************)
\* the substitution table as C21 lists it
C21_Table ==
  [ k \in {"U+2248", "U+00E5", "U+2020", "U+2202", "U+02D9", "U+03C0", "U+00DF",
           "U+2211", "U+222B", "U+00A9"} |->
      CASE k = "U+2248" -> "x" [] k = "U+00E5" -> "a" [] k = "U+2020" -> "t"
        [] k = "U+2202" -> "d" [] k = "U+02D9" -> "h" [] k = "U+03C0" -> "p"
        [] k = "U+00DF" -> "s" [] k = "U+2211" -> "w" [] k = "U+222B" -> "b"
        [] k = "U+00A9" -> "g" ]

\* a single ASCII letter
C21_AsciiLetter(k) ==
  \E i \in 1..26 : k = lowerCase[i] \/ k = upperCase[i]

\* C21: normalizeKey returns, for every raw key and flag, the lower-case
\* letter if the flag is set and the key is a single ASCII letter, else the
\* table's letter if the key is in the substitution table, else the key in
\* lower case.
C21_Normalize ==
  (view = "normalizer" /\ probe.result # Null)
    => probe.result =
         (IF probe.altPressed /\ C21_AsciiLetter(probe.key)
            THEN toLowerCase(probe.key)
          ELSE IF probe.key \in DOMAIN C21_Table THEN C21_Table[probe.key]
          ELSE toLowerCase(probe.key))

C21_Witness ==
  /\ view = "normalizer"
  /\ probe.key = "U+2248" /\ probe.altPressed /\ probe.result = "x"

(***************************************************************************)
(* Further properties of the hook: substitution, step timer, progress      *)
(***************************************************************************)
\* the last key event, delivered with the plain letter of its character
PlainEvent ==
  [ key     |-> macKeyMap[LastKey(hist)],
    altKey  |-> hist[Len(hist)].alt,
    ctrlKey |-> lastCtrl,
    metaKey |-> lastCtrl ]

\* C22: in ordered-sequence mode, a key event that delivers a character of
\* the substitution table leaves the hook in the state the event with the
\* plain letter would have left it in.
C22_SubstitutionIndependent ==
  (/\ lastOp = "key" /\ OrderedDef(sequence) /\ ~prev.completed
   /\ LastKey(hist) \in DOMAIN macKeyMap)
    => seq = handleKey(prev, sequence, isMac, PlainEvent)

(***************************************************************************)
(* Termination of a session                                                *)
(***************************************************************************)
\* C23: with the countdown ticks and the scheduled completion callbacks
\* firing, every session eventually shows its summary, whatever key events
\* arrive.
C23_Terminates == <>wrapper.showSummary

\* C24: at most one step timer is pending, and it is the one timerRef holds;
\* one is pending exactly in the Advancing states; a key that is accepted
\* without completing the sequence leaves exactly one pending, the one it
\* armed after cancelling the one before; completing the sequence and
\* reset() leave none.
C24_SingleShot ==
  /\ seq.timers <= 1
  /\ seq.timers = 1 => seq.timerRef
  /\ seq.timers = 1 <=> (seq.progress > 0 /\ ~seq.completed)
  /\ (lastOp = "key" /\ seq.progress = prev.progress + 1 /\ ~seq.completed)
       => (seq.timers = 1 /\ seq.timerRef)
  /\ (lastOp = "key" /\ seq.completed /\ ~prev.completed) => seq.timers = 0
  /\ lastOp = "reset" => seq.timers = 0

C24_Witness ==
  /\ lastOp = "key" /\ prev.progress = 2 /\ prev.timers = 1
  /\ seq.progress = 3 /\ ~seq.completed /\ seq.timers = 1

C27_ChordSingleTransition ==
  ChordDef(sequence)
    => /\ \/ seq.progress = 0 /\ ~seq.completed /\ seq.pressedKeys = << >>
          \/ seq.progress = 2 /\ seq.completed /\ Len(seq.pressedKeys) = 2
       /\ (seq.completed /\ ~prev.completed) => (lastOp = "key" /\ prev.progress = 0)

C27_Witness ==
  /\ sequence = <<"ctrl", "g">> /\ lastOp = "key"
  /\ prev.progress = 0 /\ ~prev.completed /\ seq.progress = 2 /\ seq.completed

C29_RepeatNotFiltered ==
  (/\ lastOp = "key" /\ OrderedDef(sequence)
   /\ ~prev.completed /\ prev.progress > 0
   /\ LastKey(hist) = At(sequence, prev.progress - 1)
   /\ At(sequence, prev.progress) # At(sequence, prev.progress - 1))
    => (seq.error /\ seq.progress = 0 /\ seq.pressedKeys = << >> /\ seq.timers = 0)

C29_Witness ==
  /\ lastOp = "key" /\ OrderedDef(sequence)
  /\ prev.progress = 1 /\ prev.currentKey = "alt"
  /\ LastKey(hist) = "alt" /\ hist[Len(hist)].alt
  /\ seq.error /\ seq.progress = 0

(***************************************************************************)
(* The error cool-down of the hook-based games                             *)
(***************************************************************************)
\* the hook's Idle frame
Idle(st) == st.progress = 0 /\ ~st.error /\ st.pressedKeys = << >>

LastEvent ==
  [ key     |-> LastKey(hist),
    altKey  |-> hist[Len(hist)].alt,
    ctrlKey |-> lastCtrl,
    metaKey |-> lastCtrl ]

\* C26: every key event is evaluated against the state that the key events
\* and timer expiries before it produced: the state after it is what
\* handleKey gives for the state before it.
C26_Synchronous ==
  lastOp = "key" => seq = handleKey(prev, sequence, isMac, LastEvent)

(***************************************************************************)
(* Further properties of the hook: modifiers, timer and flags              *)
(***************************************************************************)
\* C31: for a sequence the hook handles as a chord, a key event with the
\* primary-modifier flag and the alt flag both true and the chord's letter
\* as key (in either case) completes the chord.
C31_ExtraModifiers ==
  (/\ lastOp = "key" /\ ~prev.completed
   /\ Len(sequence) = 2 /\ sequence[1] = "ctrl"
   /\ lastCtrl /\ hist[Len(hist)].alt /\ LastKey(hist) = sequence[2])
    => (seq.completed /\ seq.progress = 2 /\ seq.pressedKeys = sequence)

C31_Witness ==
  /\ lastOp = "key" /\ ~prev.completed /\ sequence = <<"ctrl", "d">>
  /\ lastCtrl /\ hist[Len(hist)].alt /\ LastKey(hist) = "d" /\ seq.completed

\* the hook is between the first and the last key of an ordered sequence
Advancing(st, s) ==
  Len(s) > 2 /\ st.progress > 0 /\ st.progress < Len(s) /\ ~st.completed /\ ~st.error

\* C32: a step timer is pending exactly in the Advancing states, so the
\* step timer only ever expires in an Advancing state, never on a completed
\* hook or one that was just reset.
C32_TimerIffAdvancing ==
  /\ seq.timers > 0 <=> Advancing(seq, sequence)
  /\ lastOp = "timeout" => (Advancing(prev, sequence) /\ seq.timers = 0)
  /\ (seq.completed \/ lastOp = "reset") => seq.timers = 0

C32_Witness ==
  /\ lastOp = "key" /\ Len(sequence) > 2
  /\ Advancing(prev, sequence) /\ prev.timers = 1
  /\ seq.completed /\ seq.timers = 0

\* C33: error and completed are never both true; a completed hook has
\* progress equal to the length of its sequence; a hook in error has
\* progress 0 and no pressed keys.
C33_FlagsExclusive ==
  /\ ~(seq.error /\ seq.completed)
  /\ seq.completed => seq.progress = Len(sequence)
  /\ seq.error => (seq.progress = 0 /\ seq.pressedKeys = << >>)

C33_Witness ==
  /\ lastOp = "timeout" /\ prev.progress = 3 /\ seq.error /\ seq.progress = 0

\* C34: the cool-down's reset() only ever runs on a hook in Error, which has
\* no progress and no pressed keys; once Alt has restarted the sequence the
\* progress of the new attempt only drops by a wrong key or a step-timer
\* expiry, both of which leave the hook in Error.
C34_CooldownCancelled ==
  /\ lastOp = "reset"
       => (prev.error /\ prev.progress = 0 /\ prev.pressedKeys = << >>)
  /\ (lastOp # "render" /\ Advancing(prev, sequence) /\ seq.progress < prev.progress)
       => (lastOp \in {"key", "timeout"} /\ seq.error /\ seq.progress = 0)

C34_Witness ==
  /\ view = "closure" /\ lastOp = "key"
  /\ prev.error /\ seq.progress = 1 /\ ~seq.error /\ seq.pressedKeys = <<"alt">>

(***************************************************************************)
(* The Group challenge                                                     *)
(***************************************************************************)
\* an attempt record is appended in this step
Recorded == Len(wrapper'.times) = Len(wrapper.times) + 1

\* C35: while the Group challenge is not recognised its hook is never left
\* completed, no completion is scheduled and its countdown runs; it is
\* recognised only by a step taken with at least 2 objects selected, in
\* which no record is produced; until then the only record it can produce
\* is a timeout, and once recognised it produces exactly one record, a
\* completion, and is unmounted.
C35_GroupGuard ==
  /\ []((game.cmd = "group" /\ ~game.done)
          => (~seq.completed /\ ~game.pending /\ ~game.finished /\ game.interval))
  /\ []((game.cmd = "group" /\ game.done) => (game.selected >= 2 /\ seq.completed))
  /\ [][/\ (game.cmd = "group" /\ ~game.done /\ game'.cmd = "group" /\ game'.done)
             => (game.selected >= 2 /\ ~Recorded)
        /\ (game.cmd = "group" /\ ~game.done /\ Recorded)
             => wrapper'.timeouts[Len(wrapper'.timeouts)]
        /\ (game.cmd = "group" /\ game.done /\ Recorded)
             => (~wrapper'.timeouts[Len(wrapper'.timeouts)] /\ game'.cmd # "group")]_vars

C35_Witness ==
  /\ game.cmd = "group" /\ game.done /\ game.pending
  /\ game.selected = 2 /\ seq.completed /\ wrapper.times = << >>

(***************************************************************************)
(* Properties of the inline recognisers                                    *)
(***************************************************************************)
\* the normalised key of the key event handled in this step
Pressed == normalizeKey(hist'[1].key, hist'[1].alt)

\* the letter the recogniser g waits for after its first letter, if any
Expected(g) ==
  LET l == inlineLetters(g.cmd)
  IN  IF g.sequence = <<l[1]>> THEN l[2]
      ELSE IF g.sequence = <<l[1], l[2]>> THEN l[3]
      ELSE Null

\* C36: for a key event handled before the congratulation screen: with the
\* alt flag, the first letter restarts the recogniser's sequence from any
\* state and a key that is neither the first letter nor the letter
\* expected next changes nothing; without the alt flag the event clears
\* the sequence and recognises nothing; so the sequence grows and the
\* shortcut is recognised only by key events with the alt flag, and it is
\* recognised only by the third letter after the first two.
C36_InlineRecogniser ==
  [][(lastOp' = "key" /\ ~game.completed)
      => LET l == inlineLetters(game.cmd)
         IN  /\ (hist'[1].alt /\ Pressed = l[1]) => game'.sequence = <<l[1]>>
             /\ (hist'[1].alt /\ Pressed # l[1] /\ Pressed # Expected(game))
                  => game' = game
             /\ ~hist'[1].alt
                  => (game'.sequence = << >> /\ game'.done = game.done)
             /\ Len(game'.sequence) > Len(game.sequence) => hist'[1].alt
             /\ (game'.done /\ ~game.done)
                  => (/\ hist'[1].alt /\ Pressed = l[3]
                      /\ game.sequence = <<l[1], l[2]>>)]_vars

C36_Witness ==
  /\ view = "inline" /\ lastOp = "key" /\ game.cmd = "alignTopFirst"
  /\ hist[1].key = "q" /\ hist[1].alt /\ game.sequence = <<"p">> /\ ~game.done

(***************************************************************************)
(* Further properties of the key normaliser                                *)
(***************************************************************************)
\* C37: the result of normalizeKey is a fixed point of normalizeKey under
\* the same flag, and is never a character of the substitution table.
C37_Idempotent ==
  (view = "normalizer" /\ probe.result # Null)
    => /\ normalizeKey(probe.result, probe.altPressed) = probe.result
       /\ probe.result \notin DOMAIN macKeyMap

(***************************************************************************)
(* The summary                                                             *)
(***************************************************************************)
\* C38: the summary's verdict is 'Perfect Score' exactly when the score
\* equals the total, and as many stars are filled as the score.
C38_SummaryVerdict ==
  (view = "session" /\ wrapper.showSummary)
    => /\ getScoreMessage(wrapper.score) = "Perfect Score!"
            <=> wrapper.score = wrapper.total
       /\ filledStars(wrapper.score) = wrapper.score

====
